---- MODULE Spec2Model ----
(***************************************************************************)
(* Model of the release-timeline engine of skare3_tools/packages.py:       *)
(*   - get_all_nodes: cursor pagination over a GraphQL collection          *)
(*   - _get_repository_info_v4: release windows from compare queries       *)
(*   - _get_repository_info_v3: release windows from one history walk      *)
(*   - _get_tag_target, _get_release_commit: the commit of a release tag   *)
(*   - _pr_commits: the merges of a list of commits                        *)
(* and of scripts/skare3_update_summary.py:                                *)
(*   - repository_change_summary: the changes between two manifests        *)
(***************************************************************************)
EXTENDS Integers, Sequences, FiniteSets, TLC

(***************************************************************************)
(* Bounds of the model                                                     *)
(***************************************************************************)
\* cursors of a paginated collection are 0..MaxCursor
MaxCursor == 2
\* the default-branch history holds MaxCommits commits
MaxCommits == 2
\* at most MaxReleases releases are fetched
MaxReleases == 3
\* integer values of `since` are 0..MaxSince
MaxSince == 2
\* get_all_nodes is followed for at most MaxFetches queries
MaxFetches == 5
\* the history of the scenarios of the specification holds ScenarioCommits commits
ScenarioCommits == 5
\* a release tag points to its object through at most MaxDepth annotated tags
MaxDepth == 2
\* _pr_commits is run on its own on at most MaxAttr commits, with pull
\* requests numbered 1..MaxAttr
MaxAttr == 2
\* the full release_info of a repository holds MaxWindows release windows
MaxWindows == 3
\* get_repositories_info is given at most MaxRepos repositories
MaxRepos == 2
\* a decorated function and its rm_cache_entry are called MaxCalls times in all
MaxCalls == 3
\* the clock of the cache runs from 0 to MaxClock
MaxClock == 2

\* the default of `since` (def _get_repository_info_v4(owner_repo, since=7, ...))
DefaultSince == 7

VARIABLES
    \* ---- get_all_nodes ----
    source,      \* the remote collection: cursor -> page
    at,          \* local `at`: the cursor of the next request
    data,        \* local `data`: the page fetched last
    commits,     \* local `commits`: the nodes accumulated so far
    requests,    \* the cursors of the queries sent to the API, in order
    ppc,         \* position in get_all_nodes: call, loop, returned, raised
    perr,        \* the exception raised: none, stalled, api
    result,      \* the value returned by get_all_nodes
    \* ---- _get_repository_info_v4 / _v3 ----
    history,     \* default-branch commits, newest first
    raw_releases,\* releases as fetched (fetch order)
    since,       \* the `since` argument
    include_commits, \* the `include_commits` argument
    releases,    \* local `releases` of v4
    release_tags,\* local `release_tags` of v4
    release_info,\* local `release_info` of v4
    pair,        \* index of the next (base, head) pair of the zip loop
    compares,    \* the (base, head) compare queries sent, in order
    last_tag,    \* local `last_tag` of v4
    rpc,         \* position in v4: start, since, unreleased, pairs, done, failed, keyerror
    pull_requests, \* the pull requests of the repository, as fetched
    info_v3,     \* release_info as built by v3
    pc3,         \* position in v3: start, done, failed
    \* ---- _get_tag_target / _get_release_commit ----
    tag_obj,     \* the git object a release tag points to
    tag_node,    \* rel["tag"]: the node of the GraphQL response for it
    target_v4,   \* the outcome of _get_tag_target(rel["tag"])
    target_v3,   \* the outcome of _get_release_commit(repository, tag_name)
    \* ---- _pr_commits ----
    attr_commits,\* the argument `commits`
    attr_prs,    \* the argument `all_pull_requests`, in the order of its keys
    attr_out,    \* the outcome of _pr_commits: status and merges
    \* ---- repository_change_summary ----
    initial_versions, \* the argument initial_versions: package -> version
    final_versions,   \* the argument final_versions: package -> version
    repo_kind,   \* for each package, what is known of its repository
    summary,     \* local `summary`, the value returned
    dnext,       \* index in package_names of the package handled next
    dpc,         \* position: idle, loop, returned, raised
    dlog,        \* the warnings logged and the wider fetches made, in order
    \* ---- get_repositories_info ----
    batch_repos, \* the argument `repositories`
    batch_fails, \* the repositories for which get_repository_info raises
    batch_meta,  \* what get_conda_pkg_info does for ska3-flight, ska3-matlab
    batch_info,  \* local `info`, the value returned
    batch_versions, \* local `meta_pkg_versions`
    bnext,       \* index of the meta package or repository handled next
    bpc,         \* position: idle, meta, loop, returned, raised
    batch_log,   \* what is logged, in order
    \* ---- json_cache ----
    cache_expires, \* the decorator's `expires`, in clock ticks; 0 for None
    cache_policy,  \* whether the decorator is given an update_policy
    cache_writable,\* dir_access_ok(filename)
    cache_files,   \* the files of the cache directory: name -> value, mtime
    cache_now,     \* the clock
    cache_log      \* the calls of the wrapper and of rm_cache_entry, in order

pagerVars == <<source, at, data, commits, requests, ppc, perr, result>>
repoVars == <<history, raw_releases, since, include_commits, releases,
              release_tags, release_info, pair, compares, last_tag, rpc,
              pull_requests, info_v3, pc3>>
tagVars == <<tag_obj, tag_node, target_v4, target_v3>>
attrVars == <<attr_commits, attr_prs, attr_out>>
diffVars == <<initial_versions, final_versions, repo_kind, summary, dnext,
              dpc, dlog>>
batchVars == <<batch_repos, batch_fails, batch_meta, batch_info,
               batch_versions, bnext, bpc, batch_log>>
\* the variables of the functions that are run on their own
cacheVars == <<cache_expires, cache_policy, cache_writable, cache_files,
               cache_now, cache_log>>
toolVars == <<tagVars, attrVars, diffVars, batchVars, cacheVars>>
vars == <<source, at, data, commits, requests, ppc, perr, result,
          history, raw_releases, since, include_commits, releases,
          release_tags, release_info, pair, compares, last_tag, rpc,
          pull_requests, info_v3, pc3,
          tag_obj, tag_node, target_v4, target_v3,
          attr_commits, attr_prs, attr_out,
          initial_versions, final_versions, repo_kind, summary, dnext,
          dpc, dlog,
          batch_repos, batch_fails, batch_meta, batch_info, batch_versions,
          bnext, bpc, batch_log,
          cache_expires, cache_policy, cache_writable, cache_files,
          cache_now, cache_log>>

(***************************************************************************)
(* Generic helpers                                                         *)
(***************************************************************************)
Range(s) == {s[i] : i \in 1..Len(s)}

RECURSIVE Flatten(_)
Flatten(ss) == IF ss = <<>> THEN <<>> ELSE Head(ss) \o Flatten(Tail(ss))

RECURSIVE Reverse(_)
Reverse(s) == IF s = <<>> THEN <<>> ELSE Append(Reverse(Tail(s)), Head(s))

\* Python's s[:n] for n >= 0
Prefix(s, n) == SubSeq(s, 1, IF n < Len(s) THEN n ELSE Len(s))

RECURSIVE SelectIdx(_, _, _)
\* positions of s, in order, kept by Test(s[i]) -- a list comprehension with `if`
SelectIdx(s, i, keep) ==
    IF i > Len(s) THEN <<>>
    ELSE (IF i \in keep THEN <<s[i]>> ELSE <<>>) \o SelectIdx(s, i + 1, keep)

\* the `since` argument: None, an int or a str
NoSince == [kind |-> "none", n |-> 0, tag |-> ""]
IntSince(n) == [kind |-> "int", n |-> n, tag |-> ""]
TagSince(t) == [kind |-> "str", n |-> 0, tag |-> t]

(***************************************************************************)
(* get_all_nodes (packages.py 463-495)                                     *)
(***************************************************************************)
Cursors == 0..MaxCursor

\* the nodes of the page requested with cursor c: c mod 3 nodes, all distinct
NodesOf(c) == [i \in 1..(c % 3) |-> 10 * c + i]

\* A page, as get_all_nodes reads it: data[path]["nodes"], "errors" in data,
\* and the pageInfo pair chosen by `reverse` (startCursor/hasPreviousPage or
\* endCursor/hasNextPage); only the chosen pair is read.
Pages == [hasMore : BOOLEAN, cursor : Cursors]

NoPage == [nodes |-> <<>>, hasMore |-> FALSE, cursor |-> 0, errors |-> FALSE]

\* github.GITHUB_API_V4(query rendered with cursor=c)
Fetch(c) == source[c]

\* check_api_errors(data) raises
HasErrors(page) == page.errors

\* a loop that never compares the cursors
CursorStalled_Never(a, page) == FALSE

\* `at == data[path]["pageInfo"][cursor]`
CursorStalled(a, page) == a = page.cursor

\* `commits = data[path]["nodes"]`: the last page replaces the list
Accumulate_Overwrite(acc, page) == page.nodes

\* `commits += data[path]["nodes"]`
Accumulate(acc, page) == acc \o page.nodes

\* the repository part is not run by the pagination specifications
IdleRepo ==
    /\ history = <<>>
    /\ raw_releases = <<>>
    /\ since = NoSince
    /\ include_commits = FALSE
    /\ releases = <<>>
    /\ release_tags = <<>>
    /\ release_info = <<>>
    /\ pair = 0
    /\ compares = <<>>
    /\ last_tag = ""
    /\ rpc = "idle"
    /\ pull_requests = <<>>
    /\ info_v3 = <<>>
    /\ pc3 = "idle"

\* an outcome: status is idle, pending, returned or raised
Outcome(status, oid, date) ==
    [status |-> status, oid |-> oid, committedDate |-> date]

\* the functions run on their own are not run by the other specifications
IdleTag ==
    /\ tag_obj = [kind |-> "commit", oid |-> 0, wrap |-> 0]
    /\ tag_node = <<>>
    /\ target_v4 = Outcome("idle", 0, 0)
    /\ target_v3 = Outcome("idle", 0, 0)

IdleAttr ==
    /\ attr_commits = <<>>
    /\ attr_prs = <<>>
    /\ attr_out = [status |-> "idle", merges |-> <<>>]

EmptySummary == [updates |-> <<>>, new |-> <<>>, removed |-> <<>>]

IdleDiff ==
    /\ initial_versions = <<>>
    /\ final_versions = <<>>
    /\ repo_kind = <<>>
    /\ summary = EmptySummary
    /\ dnext = 0
    /\ dpc = "idle"
    /\ dlog = <<>>

IdleBatch ==
    /\ batch_repos = <<>>
    /\ batch_fails = {}
    /\ batch_meta = <<>>
    /\ batch_info = <<>>
    /\ batch_versions = <<>>
    /\ bnext = 0
    /\ bpc = "idle"
    /\ batch_log = <<>>

IdleCache ==
    /\ cache_expires = 0
    /\ cache_policy = FALSE
    /\ cache_writable = FALSE
    /\ cache_files = <<>>
    /\ cache_now = 0
    /\ cache_log = <<>>

IdleTools == IdleTag /\ IdleAttr /\ IdleDiff /\ IdleBatch /\ IdleCache

InitPager ==
    /\ IdleRepo
    /\ IdleTools
    /\ \E pi \in [Cursors -> Pages], bad \in Cursors \cup {MaxCursor + 1} :
          source = [c \in Cursors |->
                      [nodes |-> NodesOf(c), hasMore |-> pi[c].hasMore,
                       cursor |-> pi[c].cursor, errors |-> (c = bad)]]
    /\ at \in Cursors
    /\ data = NoPage
    /\ commits = <<>>
    /\ requests = <<>>
    /\ ppc = "call"
    /\ perr = "none"
    /\ result = <<>>

\* lines 472-480: the first query, with the caller's cursor
FirstFetch ==
    /\ ppc = "call"
    /\ requests' = Append(requests, at)
    /\ data' = Fetch(at)
    /\ IF HasErrors(Fetch(at))
       THEN /\ ppc' = "raised"
            /\ perr' = "api"
            /\ UNCHANGED commits
       ELSE /\ ppc' = "loop"
            /\ commits' = Fetch(at).nodes
            /\ UNCHANGED perr
    /\ UNCHANGED <<source, at, result>>
    /\ UNCHANGED <<repoVars, toolVars>>

\* The list of requests and the accumulated nodes are kept exactly for the
\* first MaxFetches requests.  A run that makes more requests has requested
\* some cursor twice (MaxFetches > MaxCursor + 1) and, the page of a cursor
\* being fixed, repeats from there on: the loop goes on and the two lists are
\* no longer extended.
Recording == Len(requests) < MaxFetches

\* lines 481-494: one iteration of the while loop
NextPage ==
    /\ ppc = "loop"
    /\ data.hasMore
    /\ IF CursorStalled(at, data)
       THEN /\ ppc' = "raised"
            /\ perr' = "stalled"
            /\ UNCHANGED <<at, data, commits, requests>>
       ELSE /\ at' = data.cursor
            /\ requests' = IF Recording THEN Append(requests, data.cursor)
                                        ELSE requests
            /\ data' = Fetch(data.cursor)
            /\ IF HasErrors(Fetch(data.cursor))
               THEN /\ ppc' = "raised"
                    /\ perr' = "api"
                    /\ UNCHANGED commits
               ELSE /\ commits' = IF Recording
                                  THEN Accumulate(commits, Fetch(data.cursor))
                                  ELSE commits
                    /\ UNCHANGED <<ppc, perr>>
    /\ UNCHANGED <<source, result>>
    /\ UNCHANGED <<repoVars, toolVars>>

\* line 495: the loop condition is false, return commits
Return ==
    /\ ppc = "loop"
    /\ ~data.hasMore
    /\ ppc' = "returned"
    /\ result' = commits
    /\ UNCHANGED <<source, at, data, commits, requests, perr>>
    /\ UNCHANGED <<repoVars, toolVars>>

(***************************************************************************)
(* _get_tag_target (packages.py 318-322) and _get_release_commit (854-869) *)
(***************************************************************************)
\* A release tag points to a git object: `wrap` annotated tag objects around
\* an object of kind `kind` with hash `oid`.
ObjectKinds == {"commit", "tree", "blob"}
GitObjects(n) == [kind : ObjectKinds, oid : 1..n, wrap : 0..MaxDepth]

\* the committedDate of a commit grows with its oid
CommitDate(oid) == oid

\* the hash of the annotated tag object at nesting level `level`
TagObjectOid(level) == 100 + level

\* the object an annotated tag object points to
Peel(obj) == [obj EXCEPT !.wrap = @ - 1]

\* What a GraphQL response holds for an object that is neither a Commit nor a
\* Tag: the fragments `... on Commit` and `... on Tag` select nothing, which
\* leaves an empty node, or the hash alone when the query asks every object
\* for its oid.  Only a Commit has a committedDate.
OtherNodes(obj) == {<<>>, [oid |-> obj.oid]}

RECURSIVE TargetNode(_, _)
\* tag { target { ... on Commit {...} ... on Tag { oid target {...} } } }
TargetNode(obj, other) ==
    IF obj.wrap > 0
    THEN [oid |-> TagObjectOid(obj.wrap), target |-> TargetNode(Peel(obj), other)]
    ELSE IF obj.kind = "commit"
    THEN [oid |-> obj.oid, committedDate |-> CommitDate(obj.oid)]
    ELSE other

\* rel["tag"]: the ref of the release tag
TagRef(obj, other) == [target |-> TargetNode(obj, other)]

\* a release as fetched, with a tag that points to obj; oid, kind and wrap
\* describe the object in the repository, tag is the node of the response
ReleaseOf(tagName, flag, obj, other) ==
    [tagName |-> tagName, isDraft |-> flag = "draft",
     isPrerelease |-> flag = "prerelease",
     oid |-> obj.oid, kind |-> obj.kind, wrap |-> obj.wrap,
     tag |-> TagRef(obj, other)]

\* the object of a tag on commit oid
CommitObject(oid, wrap) == [kind |-> "commit", oid |-> oid, wrap |-> wrap]

\* a resolution that unwraps one level and takes the hash it finds there
GetTagTarget_OneLevel(tag) ==
    LET t == IF "target" \in DOMAIN tag THEN tag.target ELSE tag
    IN IF "oid" \in DOMAIN t
       THEN Outcome("returned", t.oid,
                    IF "committedDate" \in DOMAIN t THEN t.committedDate ELSE 0)
       ELSE Outcome("raised", 0, 0)

RECURSIVE GetTagTarget(_)
\* _get_tag_target(tag); tag["oid"] and tag["committedDate"] raise KeyError
\* when the node lacks the key
GetTagTarget(tag) ==
    IF "target" \in DOMAIN tag
    THEN GetTagTarget(tag.target)
    ELSE IF {"oid", "committedDate"} \subseteq DOMAIN tag
    THEN Outcome("returned", tag.oid, tag.committedDate)
    ELSE Outcome("raised", 0, 0)

\* repository.tags(name=...)["object"] and repository.tags(tag_sha=...)["object"]:
\* the type and the hash of the object a ref or a tag object points to
RestObject(obj) ==
    IF obj.wrap > 0
    THEN [type |-> "tag", sha |-> TagObjectOid(obj.wrap)]
    ELSE [type |-> obj.kind, sha |-> obj.oid]

\* a lookup that returns the object without looking at its type
GetReleaseCommit_Unchecked(obj) ==
    LET first == RestObject(obj)
        o == IF first.type = "tag" THEN RestObject(Peel(obj)) ELSE first
    IN Outcome("returned", o.sha, 0)

\* _get_release_commit(repository, release_name), for a tag that points to obj
GetReleaseCommit(obj) ==
    LET first == RestObject(obj)
        o == IF first.type = "tag" THEN RestObject(Peel(obj)) ELSE first
    IN IF o.type # "commit"
       THEN Outcome("raised", 0, 0)
       ELSE Outcome("returned", o.sha, 0)

\* the call _get_tag_target(rel["tag"]) of line 616
ResolveTag ==
    /\ target_v4.status = "pending"
    /\ target_v4' = GetTagTarget(tag_node)
    /\ UNCHANGED <<tag_obj, tag_node, target_v3>>
    /\ UNCHANGED <<pagerVars, repoVars, attrVars, diffVars, batchVars, cacheVars>>

\* the call _get_release_commit(repository, r["tag_name"]) of line 909
ResolveRelease ==
    /\ target_v3.status = "pending"
    /\ target_v3' = GetReleaseCommit(tag_obj)
    /\ UNCHANGED <<tag_obj, tag_node, target_v4>>
    /\ UNCHANGED <<pagerVars, repoVars, attrVars, diffVars, batchVars, cacheVars>>

(***************************************************************************)
(* packaging.version.Version, as used on release tags                      *)
(***************************************************************************)
\* the release segment of a tag that parses as a PEP 440 version; <<>> for a
\* tag that raises InvalidVersion (a leading "v" is accepted by the parser)
ReleaseSegment(tag) ==
    CASE tag = "3.0"   -> <<3, 0>>
      [] tag = "2.0"   -> <<2, 0>>
      [] tag = "2.0.0" -> <<2, 0, 0>>
      [] tag = "1.0"   -> <<1, 0>>
      [] tag = "v2.0"  -> <<2, 0>>
      [] tag = "v1.0"  -> <<1, 0>>
      [] OTHER         -> <<>>

\* Version(tag) does not raise InvalidVersion
IsValidVersion(tag) == ReleaseSegment(tag) # <<>>

RECURSIVE StripZeros(_)
\* the comparison key drops the trailing zeros of the release segment
StripZeros(s) ==
    IF s # <<>> /\ s[Len(s)] = 0 THEN StripZeros(SubSeq(s, 1, Len(s) - 1)) ELSE s

\* the comparison key of Version(tag)
Version(tag) == StripZeros(ReleaseSegment(tag))

RECURSIVE SeqLess(_, _)
\* tuple comparison a < b
SeqLess(a, b) ==
    IF b = <<>> THEN FALSE
    ELSE IF a = <<>> THEN TRUE
    ELSE IF Head(a) # Head(b) THEN Head(a) < Head(b)
    ELSE SeqLess(Tail(a), Tail(b))

\* Version(a) < Version(b)
VersionLess(a, b) == SeqLess(Version(a), Version(b))

RECURSIVE InsertDesc(_, _, _)
\* index i goes after every index whose key is not smaller than keys[i]
InsertDesc(i, perm, keys) ==
    IF perm = <<>> THEN <<i>>
    ELSE IF SeqLess(keys[Head(perm)], keys[i]) THEN <<i>> \o perm
    ELSE <<Head(perm)>> \o InsertDesc(i, Tail(perm), keys)

\* a list left in the order in which it was fetched
SortPermDesc_Unsorted(keys, n) == [k \in 1..n |-> k]

RECURSIVE SortPermDesc(_, _)
\* the order in which sorted(..., reverse=True) lists the first n positions:
\* descending keys, equal keys keep their original order
SortPermDesc(keys, n) ==
    IF n = 0 THEN <<>> ELSE InsertDesc(n, SortPermDesc(keys, n - 1), keys)

\* sorted(s, key=lambda x: keys[x], reverse=True)
SortedDesc(s, keys) == [k \in 1..Len(s) |-> s[SortPermDesc(keys, Len(s))[k]]]

\* sorted(releases, key=lambda r: Version(r["tagName"]), reverse=True)
SortReleases(rels) ==
    SortedDesc(rels, [k \in 1..Len(rels) |-> Version(rels[k].tagName)])

\* sorted(release_info[1:], key=lambda r: Version(r["release_tag"]), reverse=True)
SortWindows(ws) ==
    SortedDesc(ws, [k \in 1..Len(ws) |-> Version(ws[k].release_tag)])

(***************************************************************************)
(* _pr_commits (packages.py 507-535)                                       *)
(***************************************************************************)
\* A commit is [oid, message]; oid p is the p-th commit of the default
\* branch (1 is the oldest).  A message is [pr, branch, title]: pr = 0 when
\* the text does not start with "Merge pull request #<pr> from <branch>",
\* title = "" when the optional "\n\n<title>" part is absent.
\* A pull request is [number, mergeCommit, title, headRefName, author];
\* mergeCommit = 0 stands for None.
\* A commit message.  With pr > 0 its text is
\*   "Merge pull request #<pr> from <branch>[ from <tail>][\n\n<title>]"
\* (the parts in brackets are absent when the field is ""); with pr = 0 it is
\* any text that does not start like this.
PlainMessage == [pr |-> 0, branch |-> "", title |-> "", tail |-> ""]
MergeMessage(n) == [pr |-> n, branch |-> "topic", title |-> "Title", tail |-> ""]

\* re.match(r"Merge pull request #(?P<pr_number>.+) from (?P<branch>\S+)(\n\n(?P<title>.+))?", message)
MatchV4(message) == message.pr # 0

\* The group `branch`: `.+` is greedy, so pr_number runs up to the last
\* " from " of the first line and branch is the word after it.
BranchGroup(message) ==
    IF message.tail # "" THEN message.tail ELSE message.branch

\* int(merge["pr_number"]) raises ValueError: the group pr_number is
\* "<pr> from <branch>" when the first line holds a second " from "
IntRaises(message) == message.tail # ""

\* all_pull_requests = {pr["number"]: pr for pr in pull_requests}: one entry
\* per number, in the order of the first occurrence, holding the last one
RECURSIVE AllPullRequests(_)
AllPullRequests(prs) ==
    IF prs = <<>> THEN <<>>
    ELSE LET rest == AllPullRequests(SubSeq(prs, 1, Len(prs) - 1))
             last == prs[Len(prs)]
         IN IF \E k \in 1..Len(rest) : rest[k].number = last.number
            THEN [k \in 1..Len(rest) |->
                    IF rest[k].number = last.number THEN last ELSE rest[k]]
            ELSE Append(rest, last)

\* pulls_v_hash[oid]: the last pull request of the dictionary merged as oid
HashKeys(all) == {all[k].mergeCommit : k \in {j \in 1..Len(all) : all[j].mergeCommit # 0}}
PullsVHash(all, oid) ==
    all[CHOOSE k \in 1..Len(all) :
            /\ all[k].mergeCommit = oid
            /\ \A j \in 1..Len(all) : all[j].mergeCommit = oid => j <= k]

\* the merge of one commit, as a list of zero or one element
MergeOfCommit(commit, all) ==
    IF commit.oid \in HashKeys(all)
    THEN <<[pr_number |-> PullsVHash(all, commit.oid).number,
            title |-> PullsVHash(all, commit.oid).title,
            branch |-> PullsVHash(all, commit.oid).headRefName,
            author |-> PullsVHash(all, commit.oid).author]>>
    ELSE IF MatchV4(commit.message)
    THEN <<[pr_number |-> commit.message.pr,
            title |-> commit.message.title,
            branch |-> BranchGroup(commit.message),
            author |-> "Unknown"]>>
    ELSE <<>>

\* the loop of lines 514-533 raises on one of the commits
PrCommitsRaises(cs, all) ==
    \E k \in 1..Len(cs) :
        /\ cs[k].oid \notin HashKeys(all)
        /\ MatchV4(cs[k].message)
        /\ IntRaises(cs[k].message)

RECURSIVE PrCommits_Prepend(_, _)
\* a loop that puts each merge in front of the list
PrCommits_Prepend(cs, all) ==
    IF cs = <<>> THEN <<>>
    ELSE PrCommits_Prepend(Tail(cs), all) \o MergeOfCommit(Head(cs), all)

RECURSIVE PrCommits(_, _)
\* _pr_commits(commits, all_pull_requests): merges in the order of commits
PrCommits(cs, all) ==
    IF cs = <<>> THEN <<>>
    ELSE MergeOfCommit(Head(cs), all) \o PrCommits(Tail(cs), all)

\* the call _pr_commits(commits, all_pull_requests)
RunPrCommits ==
    /\ attr_out.status = "pending"
    /\ attr_out' = IF PrCommitsRaises(attr_commits, attr_prs)
                   THEN [status |-> "raised", merges |-> <<>>]
                   ELSE [status |-> "returned",
                         merges |-> PrCommits(attr_commits, attr_prs)]
    /\ UNCHANGED <<attr_commits, attr_prs>>
    /\ UNCHANGED <<pagerVars, repoVars, tagVars, diffVars, batchVars, cacheVars>>

(***************************************************************************)
(* The repository, as the GitHub API shows it                              *)
(***************************************************************************)
\* A release is [tagName, isDraft, isPrerelease, oid]: oid is the commit its
\* tag resolves to (_get_tag_target).
Tags == {"3.0", "2.0", "2.0.0", "1.0", "latest"}

\* the commit a tag name resolves to
TagOid(tag) ==
    raw_releases[CHOOSE k \in 1..Len(raw_releases) : raw_releases[k].tagName = tag].oid

\* the oid of the head of the default branch
DefaultBranchOid == Len(history)

\* ref(qualifiedName: base) { compare(headRef: head) { commits } }: the
\* commits reachable from head and not from base, oldest first; on a linear
\* history these are the commits after base up to head
CompareCommits(baseOid, headOid) ==
    Reverse(SelectSeq(history, LAMBDA c : c.oid > baseOid /\ c.oid <= headOid))

(***************************************************************************)
(* _get_repository_info_v4 (packages.py 538-740)                           *)
(***************************************************************************)
\* a filter that lets drafts and pre-releases through
Published_All(rels) == rels

\* line 613: [r for r in releases if not r["isPrerelease"] and not r["isDraft"]]
Published(rels) == SelectSeq(rels, LAMBDA r : ~r.isPrerelease /\ ~r.isDraft)

\* lines 614-625: drop the releases whose tagName is in `exclude`
ValidReleases(rels) ==
    LET exclude == {rels[k].tagName : k \in {j \in 1..Len(rels) : ~IsValidVersion(rels[j].tagName)}}
    IN SelectSeq(rels, LAMBDA r : r.tagName \notin exclude)

\* release_tags.index(since): the first position (from 0) of the tag
TagIndex(tags, t) == (CHOOSE k \in 1..Len(tags) :
                         tags[k] = t /\ \A j \in 1..(k - 1) : tags[j] # t) - 1

\* releases[:since]: one release less than the code keeps
SinceSlice_OffByOne(rels, tags, s) ==
    IF s.kind = "int" THEN Prefix(rels, s.n)
    ELSE IF s.kind = "str" /\ s.tag \in Range(tags)
    THEN Prefix(rels, TagIndex(tags, s.tag) + 2)
    ELSE rels

\* lines 629-634: the releases kept for `since`
SinceSlice(rels, tags, s) ==
    IF s.kind = "int" THEN Prefix(rels, s.n + 1)
    ELSE IF s.kind = "str" /\ s.tag \in Range(tags)
    THEN Prefix(rels, TagIndex(tags, s.tag) + 2)
    ELSE rels

\* an unknown tag taken for no limit at all
SinceRaises_Never(tags, s) == FALSE

\* lines 635-640: raise Exception("Requested repository info with since=...")
SinceRaises(tags, s) == s.kind = "str" /\ s.tag \notin Range(tags)

Window(tag, merges) == [release_tag |-> tag, commits |-> <<>>, merges |-> merges]

\* lines 731-733: del r["commits"] unless include_commits
DelCommits(w) == [release_tag |-> w.release_tag, merges |-> w.merges]

\* line 616, run on every release that line 613 keeps: _get_tag_target raises
TagTargetRaises(rels) ==
    \E k \in 1..Len(rels) : GetTagTarget(rels[k].tag).status = "raised"

\* lines 612-626
BuildReleaseSet ==
    /\ rpc = "start"
    /\ IF TagTargetRaises(Published(raw_releases))
       THEN rpc' = "keyerror" /\ UNCHANGED releases
       ELSE /\ rpc' = "since"
            /\ releases' = SortReleases(ValidReleases(Published(raw_releases)))
    /\ UNCHANGED <<history, raw_releases, since, include_commits, release_tags,
                   release_info, pair, compares, last_tag, pull_requests,
                   info_v3, pc3>>
    /\ UNCHANGED <<pagerVars, toolVars>>

\* lines 628-640
ApplySince ==
    /\ rpc = "since"
    /\ release_tags' = [k \in 1..Len(releases) |-> releases[k].tagName]
    /\ IF SinceRaises(release_tags', since)
       THEN rpc' = "failed" /\ UNCHANGED releases
       ELSE rpc' = "unreleased" /\ releases' = SinceSlice(releases, release_tags', since)
    /\ UNCHANGED <<history, raw_releases, since, include_commits,
                   release_info, pair, compares, last_tag, pull_requests,
                   info_v3, pc3>>
    /\ UNCHANGED <<pagerVars, toolVars>>

\* lines 642-668
Unreleased ==
    /\ rpc = "unreleased"
    /\ IF Len(releases) = 0
       THEN /\ release_info' =
                 <<Window("", PrCommits(history, AllPullRequests(pull_requests)))>>
            /\ UNCHANGED compares
       ELSE /\ compares' = Append(compares, <<releases[1].tagName, "">>)
            /\ release_info' =
                 <<Window("", PrCommits(
                        CompareCommits(TagOid(releases[1].tagName), DefaultBranchOid),
                        AllPullRequests(pull_requests)))>>
    /\ pair' = 1
    /\ rpc' = "pairs"
    /\ UNCHANGED <<history, raw_releases, since, include_commits, releases,
                   release_tags, last_tag, pull_requests, info_v3, pc3>>
    /\ UNCHANGED <<pagerVars, toolVars>>

\* lines 670-689: one iteration over zip(releases[1:], releases[:-1])
PairWindow ==
    /\ rpc = "pairs"
    /\ pair < Len(releases)
    /\ LET base == releases[pair + 1]
           head == releases[pair]
       IN /\ compares' = Append(compares, <<base.tagName, head.tagName>>)
          /\ release_info' = Append(release_info,
                 Window(head.tagName, PrCommits(
                        CompareCommits(TagOid(base.tagName), TagOid(head.tagName)),
                        AllPullRequests(pull_requests))))
    /\ pair' = pair + 1
    /\ UNCHANGED <<history, raw_releases, since, include_commits, releases,
                   release_tags, last_tag, rpc, pull_requests, info_v3, pc3>>
    /\ UNCHANGED <<pagerVars, toolVars>>

\* lines 692-740: sort the windows, last_tag, drop the commits, return
Finish ==
    /\ rpc = "pairs"
    /\ pair >= Len(releases)
    /\ LET sorted == <<release_info[1]>> \o SortWindows(Tail(release_info))
       IN /\ last_tag' = IF Len(sorted) > 1 THEN sorted[2].release_tag ELSE ""
          /\ release_info' = IF include_commits THEN sorted
                             ELSE [k \in 1..Len(sorted) |-> DelCommits(sorted[k])]
    /\ rpc' = "done"
    /\ UNCHANGED <<history, raw_releases, since, include_commits, releases,
                   release_tags, pair, compares, pull_requests, info_v3, pc3>>
    /\ UNCHANGED <<pagerVars, toolVars>>

(***************************************************************************)
(* _get_repository_info_v3 (packages.py 872-1035)                          *)
(***************************************************************************)
\* re.match(r"Merge pull request #(?P<pr_number>.+) from (?P<branch>\S+)\n\n(?P<title>.+)", message)
MatchV3(message) == message.pr # 0 /\ message.title # ""

\* line 909: _get_release_commit raises for a release; lines 916-928: since
\* is neither an int nor a key of release_dates (None included)
V3Raises(rels, s) ==
    \/ \E k \in 1..Len(rels) :
          GetReleaseCommit([kind |-> rels[k].kind, oid |-> rels[k].oid,
                            wrap |-> rels[k].wrap]).status = "raised"
    \/ s.kind # "int" /\ ~(s.kind = "str" /\ \E k \in 1..Len(rels) : rels[k].tagName = s.tag)

\* lines 915-922: date_since, 0 for None; the date of a commit grows with its oid
V3DateSince(rels, s) ==
    IF s.kind = "int"
    THEN IF Len(rels) > s.n
         THEN SortedDesc([k \in 1..Len(rels) |-> rels[k].oid],
                         [k \in 1..Len(rels) |-> <<rels[k].oid>>])[s.n + 1]
         ELSE 0
    ELSE TagOid(s.tag)

\* lines 936-940: repository.commits(sha=default_branch, since=date_since),
\* without its last (oldest) commit when date_since is given
V3Commits(date_since) ==
    IF date_since = 0 THEN history
    ELSE LET cs == SelectSeq(history, LAMBDA c : c.oid >= date_since)
         IN SubSeq(cs, 1, Len(cs) - 1)

\* lines 943-956: the windows opened at a commit, in the order of `releases`
ReleasesAtCommit(rels, oid) ==
    LET at_commit == SelectSeq(rels, LAMBDA r : r.oid = oid)
    IN [k \in 1..Len(at_commit) |->
          [release_tag |-> at_commit[k].tagName, commits |-> <<>>, merges |-> <<>>]]

\* lines 966-975: the merge of a commit, as a list of zero or one element
V3Merge(commit, all) ==
    IF MatchV3(commit.message)
    THEN <<[pr_number |-> commit.message.pr,
            branch |-> commit.message.branch,
            title |-> IF \E k \in 1..Len(all) : all[k].number = commit.message.pr
                      THEN all[CHOOSE k \in 1..Len(all) :
                                   all[k].number = commit.message.pr].title
                      ELSE commit.message.title]>>
    ELSE <<>>

\* lines 958-975: the commit and its merge go to the last window
V3AddCommit(info, commit, all) ==
    [info EXCEPT ![Len(info)] =
        [release_tag |-> @.release_tag,
         commits |-> Append(@.commits, commit.oid),
         merges |-> @.merges \o V3Merge(commit, all)]]

RECURSIVE V3Walk_CommitFirst(_, _, _, _)
\* a walk that files the commit before it opens the windows of its releases
V3Walk_CommitFirst(cs, info, rels, all) ==
    IF cs = <<>> THEN info
    ELSE V3Walk_CommitFirst(Tail(cs),
                V3AddCommit(info, Head(cs), all) \o ReleasesAtCommit(rels, Head(cs).oid),
                rels, all)

RECURSIVE V3Walk(_, _, _, _)
\* lines 941-975: the loop over the commits, newest first
V3Walk(cs, info, rels, all) ==
    IF cs = <<>> THEN info
    ELSE V3Walk(Tail(cs),
                V3AddCommit(info \o ReleasesAtCommit(rels, Head(cs).oid), Head(cs), all),
                rels, all)

\* lines 930-975
V3ReleaseInfo(rels, s) ==
    V3Walk(V3Commits(V3DateSince(rels, s)),
           <<[release_tag |-> "", commits |-> <<>>, merges |-> <<>>]>>,
           rels, AllPullRequests(pull_requests))

\* the whole of _get_repository_info_v3, on the same repository
RunV3 ==
    /\ rpc \in {"done", "failed", "keyerror"}
    /\ pc3 = "start"
    /\ IF V3Raises(Published(raw_releases), since)
       THEN pc3' = "failed" /\ UNCHANGED info_v3
       ELSE /\ pc3' = "done"
            /\ info_v3' =
                 LET info == V3ReleaseInfo(Published(raw_releases), since)
                 IN IF include_commits THEN info
                    ELSE [k \in 1..Len(info) |-> DelCommits(info[k])]
    /\ UNCHANGED <<history, raw_releases, since, include_commits, releases,
                   release_tags, release_info, pair, compares, last_tag, rpc,
                   pull_requests>>
    /\ UNCHANGED <<pagerVars, toolVars>>

(***************************************************************************)
(* repository_change_summary (scripts/skare3_update_summary.py 30-132)     *)
(***************************************************************************)
\* the package names, in the order of sorted() and in the order of
\* sorted(key=lambda pkg: pkg["name"].lower())
PackageNames == <<"B", "a">>
ByLowerName == <<"a", "B">>

\* _clean_version(version): "" stays, any other tag becomes str(Version(tag))
CleanVersion(version) ==
    CASE version = "v2.0" -> "2.0"
      [] version = "v1.0" -> "1.0"
      [] OTHER -> version

\* the release tags of a repository, highest version first
WindowTagOrder == <<"3.0", "v2.0", "1.0", "0.9">>

\* the merges of window k of a release_info (window 0 is the unreleased one)
MergesOfWindow(k) ==
    [j \in 1..(1 + (k % 2)) |->
        [pr_number |-> 10 * k + j, title |-> "Title", author |-> "dev"]]

\* a release_info with the n highest releases
ReleaseInfo(n) ==
    [i \in 1..(n + 1) |->
        [release_tag |-> IF i = 1 THEN "" ELSE WindowTagOrder[i - 1],
         merges |-> MergesOfWindow(i - 1)]]

\* What is known of the repository of a package: the package is not in
\* package_to_repo (unmapped); the repository is not in pkgs_repo_info
\* (noinfo); the repository has no release (norelease); pkgs_repo_info
\* holds its highest release only (short) or all of them (full).
RepoKinds == {"unmapped", "noinfo", "norelease", "short", "full"}

\* `package_name in package_to_repo` and `full_name in pkgs_repo_info`
HasInfo(kind) == kind \notin {"unmapped", "noinfo"}

\* pkgs_repo_info[full_name]["release_info"]
GivenInfo(kind) ==
    CASE kind = "norelease" -> ReleaseInfo(0)
      [] kind = "short" -> ReleaseInfo(1)
      [] OTHER -> ReleaseInfo(MaxWindows)

\* packages.get_repository_info(full_name, since=100)["release_info"]
WiderInfo(kind) ==
    IF kind = "norelease" THEN ReleaseInfo(0) ELSE ReleaseInfo(MaxWindows)

\* seq[a:b], for 0 <= a and 0 <= b <= len(seq)
Slice(seq, a, b) == IF a >= b THEN <<>> ELSE SubSeq(seq, a + 1, b)

\* [_clean_version(r["release_tag"]) for r in p["release_info"]]
CleanReleases(info) == [k \in 1..Len(info) |-> CleanVersion(info[k].release_tag)]

\* release_info[tag], release_info being the dictionary of lines 106-108: the
\* merges of the last window whose cleaned tag is `tag`
MergesOfTag(info, tag) ==
    info[CHOOSE k \in 1..Len(info) :
            /\ CleanVersion(info[k].release_tag) = tag
            /\ \A j \in (k + 1)..Len(info) : CleanVersion(info[j].release_tag) # tag].merges

\* lines 110-121: the merges of an update entry, in the order of the windows
OutMerges(name, merges) ==
    [k \in 1..Len(merges) |->
        [PR |-> merges[k].pr_number,
         url |-> IF merges[k].pr_number # 0 THEN <<name, merges[k].pr_number>> ELSE <<>>,
         description |-> merges[k].title,
         author |-> merges[k].author]]

\* a truth value that is true of the empty string too
Truthy_Any(version) == TRUE

\* the truth value of a version string (lines 76 and 102): "" is false
Truthy(version) == version # ""

\* a partial slice that is dropped
TailSlice_Empty(tags, v2) == <<>>

\* line 105: releases[releases.index(version_2):]
TailSlice(tags, v2) == Slice(tags, TagIndex(tags, v2), Len(tags))

\* a slice that takes the window of the initial version too
UpdateSlice_Inclusive(tags, v1, v2) ==
    IF v1 \in Range(tags) /\ v1 # ""
    THEN Slice(tags, TagIndex(tags, v2), TagIndex(tags, v1) + 1)
    ELSE Slice(tags, TagIndex(tags, v2), Len(tags))

\* lines 102-105: the tags of the windows of an update
UpdateSlice(tags, v1, v2) ==
    IF v1 \in Range(tags) /\ Truthy(v1)
    THEN Slice(tags, TagIndex(tags, v2), TagIndex(tags, v1))
    ELSE TailSlice(tags, v2)

\* lines 77-126: what the loop does for a package of both manifests whose
\* versions differ: an update entry, no entry (continue) or an exception
UpdateOutcome(name, v1, v2, kind) ==
    LET base == [name |-> name, version_2 |-> v2, version_1 |-> v1]
        refetch == v1 \notin Range(CleanReleases(GivenInfo(kind)))
        info == IF refetch THEN WiderInfo(kind) ELSE GivenInfo(kind)
        tags == CleanReleases(info)
        log == (IF refetch THEN <<[event |-> "get_repository_info", name |-> name]>>
                ELSE <<>>)
               \o (IF v1 \notin Range(tags)
                   THEN <<[event |-> "initial version not in release list", name |-> name]>>
                   ELSE <<>>)
    IN IF ~HasInfo(kind)
       THEN [kind |-> "update", entry |-> base, log |-> <<>>]
       ELSE IF tags = <<"">>
       THEN [kind |-> "continue", entry |-> base,
             log |-> Append(log, [event |-> "no tags", name |-> name])]
       ELSE IF v2 \notin Range(tags)
       THEN [kind |-> "raise", entry |-> base, log |-> log]
       ELSE LET slice == UpdateSlice(tags, v1, v2)
                merges == Flatten([k \in 1..Len(slice) |->
                                     OutMerges(name, MergesOfTag(info, slice[k]))])
            IN [kind |-> "update",
                entry |-> [name |-> name, version_2 |-> v2, version_1 |-> v1,
                           versions |-> <<v1>> \o Reverse(slice),
                           merges |-> Reverse(merges)],
                log |-> log]

\* sorted(set(list(final_versions) + list(initial_versions)))
PackageList ==
    SelectSeq(PackageNames,
              LAMBDA n : n \in DOMAIN initial_versions \cup DOMAIN final_versions)

\* an entry of `new` without its version
NewEntry_Blank(name) == [name |-> name, version |-> ""]

\* line 69: {"name": package_name, "version": final_versions[package_name]}
NewEntry(name) == [name |-> name, version |-> final_versions[name]]

\* a test that takes every non-empty final version for a change
NeedsUpdate_Always(v1, v2) == v2 # ""

\* line 76: `if version_2 and version_2 != version_1`
NeedsUpdate(v1, v2) == Truthy(v2) /\ v2 # v1

\* lines 65-126: one iteration of the loop over package_names
SummaryStep ==
    /\ dpc = "loop"
    /\ dnext <= Len(PackageList)
    /\ dnext' = dnext + 1
    /\ LET name == PackageList[dnext]
       IN IF name \notin DOMAIN initial_versions
          THEN /\ summary' = [summary EXCEPT !.new = Append(@, NewEntry(name))]
               /\ UNCHANGED <<dpc, dlog>>
          ELSE IF name \notin DOMAIN final_versions
          THEN /\ summary' = [summary EXCEPT !.removed = Append(@, name)]
               /\ UNCHANGED <<dpc, dlog>>
          ELSE IF NeedsUpdate(initial_versions[name], final_versions[name])
          THEN LET o == UpdateOutcome(name, initial_versions[name],
                                      final_versions[name], repo_kind[name])
               IN /\ dlog' = dlog \o o.log
                  /\ dpc' = IF o.kind = "raise" THEN "raised" ELSE dpc
                  /\ summary' = IF o.kind = "update"
                                THEN [summary EXCEPT !.updates = Append(@, o.entry)]
                                ELSE summary
          ELSE UNCHANGED <<summary, dpc, dlog>>
    /\ UNCHANGED <<initial_versions, final_versions, repo_kind>>
    /\ UNCHANGED <<pagerVars, repoVars, tagVars, attrVars, batchVars, cacheVars>>

\* sorted(names): the names of seq in the order of `order`
SortNames(seq, order) ==
    Flatten([i \in 1..Len(order) |-> SelectSeq(seq, LAMBDA e : e = order[i])])

\* sorted(entries, key=...): the entries of seq in the order that `order`
\* gives to their names
SortByName(seq, order) ==
    Flatten([i \in 1..Len(order) |-> SelectSeq(seq, LAMBDA e : e.name = order[i])])

\* lines 128-132: sort the three lists and return the summary
SummaryReturn ==
    /\ dpc = "loop"
    /\ dnext > Len(PackageList)
    /\ summary' = [removed |-> SortNames(summary.removed, PackageNames),
                   new |-> SortByName(summary.new, ByLowerName),
                   updates |-> SortByName(summary.updates, ByLowerName)]
    /\ dpc' = "returned"
    /\ UNCHANGED <<initial_versions, final_versions, repo_kind, dnext, dlog>>
    /\ UNCHANGED <<pagerVars, repoVars, tagVars, attrVars, batchVars, cacheVars>>

(***************************************************************************)
(* get_repositories_info (packages.py 1129-1183)                           *)
(***************************************************************************)
\* the repositories of the package list, in the order of the list
Repositories == <<"sot/a", "sot/b", "sot/c">>

\* line 1145: the meta packages
MetaPackages == <<"ska3-flight", "ska3-matlab">>

\* What get_conda_pkg_info(pkg) does: it returns the package with its
\* dependencies (ok), returns nothing for it (empty, line 1150 raises an
\* Exception), or raises NetworkException (network).
MetaOutcomes == {"ok", "empty", "network"}

\* d[k] = v for a dict d
SetKey(d, k, v) == [x \in DOMAIN d \cup {k} |-> IF x = k THEN v ELSE d[x]]

\* lines 1140-1143: info and meta_pkg_versions before the loops
EmptyBatchInfo == [packages |-> <<>>]
EmptyVersions ==
    [pkg \in Range(MetaPackages) |-> [r \in Range(batch_repos) |-> ""]]

\* lines 1145-1168: one iteration of the loop over the meta packages
MetaStep ==
    /\ bpc = "meta"
    /\ bnext <= Len(MetaPackages)
    /\ LET pkg == MetaPackages[bnext]
       IN CASE batch_meta[bnext] = "ok" ->
                 /\ batch_info' = SetKey(batch_info, pkg, "2024.1")
                 /\ batch_versions' =
                       [batch_versions EXCEPT ![pkg] = [r \in Range(batch_repos) |-> "1.0"]]
                 /\ UNCHANGED batch_log
                 /\ bpc' = IF bnext = Len(MetaPackages) THEN "loop" ELSE "meta"
                 /\ bnext' = IF bnext = Len(MetaPackages) THEN 1 ELSE bnext + 1
            [] batch_meta[bnext] = "empty" ->
                 /\ batch_log' = Append(batch_log, [level |-> "warning", what |-> pkg])
                 /\ UNCHANGED <<batch_info, batch_versions>>
                 /\ bpc' = IF bnext = Len(MetaPackages) THEN "loop" ELSE "meta"
                 /\ bnext' = IF bnext = Len(MetaPackages) THEN 1 ELSE bnext + 1
            [] OTHER ->
                 /\ batch_log' = Append(batch_log, [level |-> "error", what |-> pkg])
                 /\ bpc' = "raised"
                 /\ UNCHANGED <<batch_info, batch_versions, bnext>>
    /\ UNCHANGED <<batch_repos, batch_fails, batch_meta>>
    /\ UNCHANGED <<pagerVars, repoVars, tagVars, attrVars, diffVars, cacheVars>>

\* lines 1173-1175: the repo_info appended for a repository
RepoInfo(owner_repo) ==
    [name |-> owner_repo,
     matlab |-> batch_versions["ska3-matlab"][owner_repo],
     flight |-> batch_versions["ska3-flight"][owner_repo]]

\* lines 1170-1179: one iteration of the loop over the repositories
BatchStep ==
    /\ bpc = "loop"
    /\ bnext <= Len(batch_repos)
    /\ bnext' = bnext + 1
    /\ LET owner_repo == batch_repos[bnext]
       IN IF owner_repo \in batch_fails
          THEN /\ batch_log' = Append(batch_log, [level |-> "warning", what |-> owner_repo])
               /\ UNCHANGED <<batch_info, bpc>>
          ELSE /\ batch_info' = [batch_info EXCEPT
                                    !.packages = Append(@, RepoInfo(owner_repo))]
               /\ UNCHANGED <<batch_log, bpc>>
    /\ UNCHANGED <<batch_repos, batch_fails, batch_meta, batch_versions>>
    /\ UNCHANGED <<pagerVars, repoVars, tagVars, attrVars, diffVars, cacheVars>>

\* lines 1181-1183: info.update({"time": ...}); return info
BatchReturn ==
    /\ bpc = "loop"
    /\ bnext > Len(batch_repos)
    /\ batch_info' = SetKey(batch_info, "time", "now")
    /\ bpc' = "returned"
    /\ UNCHANGED <<batch_repos, batch_fails, batch_meta, batch_versions, bnext,
                   batch_log>>
    /\ UNCHANGED <<pagerVars, repoVars, tagVars, attrVars, diffVars, cacheVars>>

(***************************************************************************)
(* json_cache (packages.py 110-212)                                        *)
(***************************************************************************)
\* os.sep
Sep == "/"

\* The values given for the argument owner_repo of a decorated function, as
\* sequences of pieces of text; Sep is a piece of its own.
CacheArgs == {<<"ska_helpers">>, <<"sot", Sep, "Quaternion">>,
              <<"sot", "-", "Quaternion">>}

\* "{name}{arg_str}.json" with name = "pkg_repository_info::" and
\* arg_str = "owner_repo:<value>" (lines 148-156 and 195-205)
EntryName(args) == <<"pkg_repository_info::owner_repo:">> \o args \o <<".json">>

\* line 158: filename.replace(os.sep, "-")
ReplaceSep(filename) ==
    [k \in 1..Len(filename) |-> IF filename[k] = Sep THEN "-" ELSE filename[k]]

\* lines 148-159: the file of the wrapper, below `directory`
WrapperFile(args) == ReplaceSep(EntryName(args))

\* lines 195-205: the file of rm_cache_entry, below `directory`
RmFile(args) == EntryName(args)

\* the number of times the wrapped function has been invoked
Invocations ==
    Cardinality({k \in 1..Len(cache_log) : cache_log[k].invoked})

\* lines 147-182: a call of the wrapper; pol is what update_policy returns
\* when it is called
Wrapper(args, update, pol) ==
    LET filename == WrapperFile(args)
        exists == filename \in DOMAIN cache_files
        expired == /\ cache_expires # 0
                   /\ exists
                   /\ cache_now - cache_files[filename].mtime > cache_expires
        outdated == cache_policy /\ exists /\ ~(update \/ expired) /\ pol
        upd == IF cache_writable THEN update \/ expired \/ outdated ELSE FALSE
        invoked == ~exists \/ upd
    IN [op |-> "call", args |-> args, file |-> filename, update |-> update,
        cached |-> exists, expired |-> expired, outdated |-> outdated,
        invoked |-> invoked, wrote |-> invoked /\ upd,
        result |-> IF invoked THEN [of |-> args, run |-> Invocations + 1]
                   ELSE cache_files[filename].value]

CallWrapper ==
    /\ Len(cache_log) < MaxCalls
    /\ \E args \in CacheArgs, update \in BOOLEAN,
          pol \in (IF cache_policy THEN BOOLEAN ELSE {FALSE}) :
          LET call == Wrapper(args, update, pol)
          IN /\ cache_log' = Append(cache_log, call)
             /\ cache_files' =
                   IF call.wrote
                   THEN SetKey(cache_files, call.file,
                               [value |-> call.result, mtime |-> cache_now])
                   ELSE cache_files
    /\ UNCHANGED <<cache_expires, cache_policy, cache_writable, cache_now>>
    /\ UNCHANGED <<pagerVars, repoVars, tagVars, attrVars, diffVars, batchVars>>

\* lines 194-207: rm_cache_entry(*args)
RmCacheEntry ==
    /\ Len(cache_log) < MaxCalls
    /\ \E args \in CacheArgs :
          LET filename == RmFile(args)
              exists == filename \in DOMAIN cache_files
          IN /\ cache_log' = Append(cache_log,
                   [op |-> "rm", args |-> args, file |-> filename,
                    update |-> FALSE, cached |-> exists, expired |-> FALSE,
                    outdated |-> FALSE, invoked |-> FALSE, wrote |-> FALSE,
                    result |-> <<>>])
             /\ cache_files' =
                   [f \in DOMAIN cache_files \ {filename} |-> cache_files[f]]
    /\ UNCHANGED <<cache_expires, cache_policy, cache_writable, cache_now>>
    /\ UNCHANGED <<pagerVars, repoVars, tagVars, attrVars, diffVars, batchVars>>

\* time passes between two calls
Tick ==
    /\ cache_now < MaxClock
    /\ cache_now' = cache_now + 1
    /\ UNCHANGED <<cache_expires, cache_policy, cache_writable, cache_files,
                   cache_log>>
    /\ UNCHANGED <<pagerVars, repoVars, tagVars, attrVars, diffVars, batchVars>>

(***************************************************************************)
(* Specifications                                                          *)
(***************************************************************************)
\* the variables of the part that a specification does not run
IdlePager ==
    /\ source = [c \in Cursors |-> NoPage]
    /\ at = 0
    /\ data = NoPage
    /\ commits = <<>>
    /\ requests = <<>>
    /\ ppc = "idle"
    /\ perr = "none"
    /\ result = <<>>

\* the sets of merge commits of a history of n commits: none, every second
\* commit, all of them
MergedSets(n) == {{}, {i \in 1..n : i % 2 = 0}, 1..n}

\* a history of n commits, newest first; the commits of `merged` are standard
\* merge commits, each with the pull request it merged
HistoryOf(n, merged) ==
    [i \in 1..n |-> [oid |-> n + 1 - i,
                     message |-> IF (n + 1 - i) \in merged
                                 THEN MergeMessage(n + 1 - i) ELSE PlainMessage]]
PullRequestsOf(n, merged) ==
    LET prs == [p \in 1..n |->
                  [number |-> p, mergeCommit |-> p, title |-> "Title",
                   headRefName |-> "topic", author |-> "dev"]]
    IN SelectSeq(prs, LAMBDA pr : pr.number \in merged)

\* the tags of the releases a repository may have, in the order of creation
TagOrder == <<"3.0", "2.0", "2.0.0", "1.0", "latest">>

\* the lists of k tags the API may return: the releases are listed in the
\* order of their creation, or in the reverse of it
TagLists(k) ==
    LET picks == {S \in SUBSET (1..Len(TagOrder)) : Cardinality(S) = k}
        asc(S) == SelectIdx(TagOrder, 1, S)
    IN {asc(S) : S \in picks} \cup {Reverse(asc(S)) : S \in picks}

\* a release is published, a draft or a pre-release; at most one release of
\* a list is not published
FlagLists(k) ==
    {fs \in [1..k -> {"published", "draft", "prerelease"}] :
        Cardinality({i \in 1..k : fs[i] # "published"}) <= 1}

\* the release lists: up to MaxReleases releases with distinct tags, each
\* tag on one of the n commits; lightweight and annotated tags alternate
ReleaseLists(n) ==
    UNION {{[i \in 1..k |-> ReleaseOf(ts[i], fs[i], CommitObject(os[i], i % 2), <<>>)]
              : ts \in TagLists(k), fs \in FlagLists(k), os \in [1..k -> 1..n]}
           : k \in 0..MaxReleases}

SinceValues == {NoSince} \cup {IntSince(n) : n \in 0..MaxSince}
                         \cup {TagSince(t) : t \in Tags}

StartRepo ==
    /\ releases = <<>>
    /\ release_tags = <<>>
    /\ release_info = <<>>
    /\ pair = 0
    /\ compares = <<>>
    /\ last_tag = ""
    /\ rpc = "start"
    /\ info_v3 = <<>>
    /\ pc3 = "start"

InitRepo ==
    /\ IdlePager
    /\ IdleTools
    /\ \E merged \in MergedSets(MaxCommits) :
          /\ history = HistoryOf(MaxCommits, merged)
          /\ pull_requests = PullRequestsOf(MaxCommits, merged)
    /\ raw_releases \in ReleaseLists(MaxCommits)
    /\ since \in SinceValues
    /\ include_commits = FALSE
    /\ StartRepo

\* the scenarios: a longer history with no release, with one draft, or with
\* v2.0 on the third commit and v1.0 on the first one
ScenarioReleases ==
    {<<>>,
     <<ReleaseOf("v1.0", "draft", CommitObject(1, 0), <<>>)>>,
     <<ReleaseOf("v2.0", "published", CommitObject(3, 0), <<>>),
       ReleaseOf("v1.0", "published", CommitObject(1, 0), <<>>)>>}

InitScenario ==
    /\ IdlePager
    /\ IdleTools
    /\ \E merged \in MergedSets(ScenarioCommits) :
          /\ history = HistoryOf(ScenarioCommits, merged)
          /\ pull_requests = PullRequestsOf(ScenarioCommits, merged)
    /\ raw_releases \in ScenarioReleases
    /\ since \in {NoSince, IntSince(1), IntSince(DefaultSince), TagSince("v1.0")}
    /\ include_commits \in BOOLEAN
    /\ StartRepo

\* the tag scenarios: three published releases, 2.0 on the newest commit,
\* 1.0 and latest on the oldest one; the tag of one of them points, through
\* up to MaxDepth annotated tags, to a commit, a tree or a blob
TagScenarioReleases ==
    LET names == <<"2.0", "1.0", "latest">>
        oids == <<MaxCommits, 1, 1>>
    IN {[i \in 1..3 |->
            IF i = b
            THEN ReleaseOf(names[i], "published",
                           [kind |-> kd, oid |-> oids[i], wrap |-> w], other)
            ELSE ReleaseOf(names[i], "published", CommitObject(oids[i], 0), <<>>)]
          : b \in 1..3, kd \in ObjectKinds, w \in 0..MaxDepth,
            other \in OtherNodes([oid |-> 1])}

InitTagScenario ==
    /\ IdlePager
    /\ IdleTools
    /\ \E merged \in MergedSets(MaxCommits) :
          /\ history = HistoryOf(MaxCommits, merged)
          /\ pull_requests = PullRequestsOf(MaxCommits, merged)
    /\ raw_releases \in TagScenarioReleases
    /\ since \in {NoSince, IntSince(1), TagSince("2.0")}
    /\ include_commits = FALSE
    /\ StartRepo

NextRepo ==
    \/ BuildReleaseSet
    \/ ApplySince
    \/ Unreleased
    \/ PairWindow
    \/ Finish
    \/ RunV3

SpecRepo == (InitRepo \/ InitScenario \/ InitTagScenario) /\ [][NextRepo]_vars

\* one release tag, resolved by both functions
InitTag ==
    /\ IdlePager
    /\ IdleRepo
    /\ IdleAttr
    /\ IdleDiff
    /\ IdleBatch
    /\ IdleCache
    /\ tag_obj \in GitObjects(MaxCommits)
    /\ tag_node \in {TagRef(tag_obj, other) : other \in OtherNodes(tag_obj)}
    /\ target_v4 = Outcome("pending", 0, 0)
    /\ target_v3 = Outcome("pending", 0, 0)

NextTag ==
    \/ ResolveTag
    \/ ResolveRelease

SpecTag == InitTag /\ [][NextTag]_vars

\* the commit messages _pr_commits is run on
Messages ==
    {PlainMessage} \cup
    [pr : 1..MaxAttr, branch : {"topic"}, title : {"", "Title"}, tail : {"", "fork"}]

\* lists of up to MaxAttr commits, oldest or newest first
CommitLists ==
    UNION {{[i \in 1..k |-> [oid |-> IF up THEN i ELSE k + 1 - i, message |-> ms[i]]]
              : ms \in [1..k -> Messages], up \in BOOLEAN}
           : k \in 0..MaxAttr}

\* all_pull_requests: at most one pull request per number, merged as one of
\* the commits or not merged (mergeCommit 0 stands for None)
PullRequestSets ==
    LET choice == [1..MaxAttr -> {-1} \cup (0..MaxAttr)]
        pr(n, c) == [number |-> n, mergeCommit |-> c, title |-> "PR title",
                     headRefName |-> "head", author |-> "dev"]
    IN {SelectSeq([n \in 1..MaxAttr |-> pr(n, c[n])],
                  LAMBDA p : p.mergeCommit >= 0) : c \in choice}

InitAttr ==
    /\ IdlePager
    /\ IdleRepo
    /\ IdleTag
    /\ IdleDiff
    /\ IdleBatch
    /\ IdleCache
    /\ attr_commits \in CommitLists
    /\ attr_prs \in PullRequestSets
    /\ attr_out = [status |-> "pending", merges |-> <<>>]

SpecAttr == InitAttr /\ [][RunPrCommits]_vars

\* the versions of a manifest: "", the cleaned tags of the releases and a
\* version that no release has
ManifestVersions ==
    Range(CleanReleases(ReleaseInfo(MaxWindows))) \cup {"0.5"}

Manifests == UNION {[S -> ManifestVersions] : S \in SUBSET Range(PackageNames)}

InitDiff ==
    /\ IdlePager
    /\ IdleRepo
    /\ IdleTag
    /\ IdleAttr
    /\ IdleBatch
    /\ IdleCache
    /\ initial_versions \in Manifests
    /\ final_versions \in Manifests
    /\ repo_kind \in [Range(PackageNames) -> RepoKinds]
    /\ summary = EmptySummary
    /\ dnext = 1
    /\ dpc = "loop"
    /\ dlog = <<>>

NextDiff ==
    \/ SummaryStep
    \/ SummaryReturn

SpecDiff == InitDiff /\ [][NextDiff]_vars

\* the lists of at most MaxRepos repositories, without repetition
RepositoryLists ==
    {s \in UNION {[1..n -> Range(Repositories)] : n \in 0..MaxRepos} :
        \A i, j \in 1..Len(s) : i # j => s[i] # s[j]}

InitBatch ==
    /\ IdlePager
    /\ IdleRepo
    /\ IdleTag
    /\ IdleAttr
    /\ IdleDiff
    /\ IdleCache
    /\ batch_repos \in RepositoryLists
    /\ batch_fails \in SUBSET Range(batch_repos)
    /\ batch_meta \in [1..Len(MetaPackages) -> MetaOutcomes]
    /\ batch_info = EmptyBatchInfo
    /\ batch_versions = EmptyVersions
    /\ bnext = 1
    /\ bpc = "meta"
    /\ batch_log = <<>>

NextBatch ==
    \/ MetaStep
    \/ BatchStep
    \/ BatchReturn

SpecBatch == InitBatch /\ [][NextBatch]_vars

InitCache ==
    /\ IdlePager
    /\ IdleRepo
    /\ IdleTag
    /\ IdleAttr
    /\ IdleDiff
    /\ IdleBatch
    /\ cache_expires \in {0, 1}
    /\ cache_policy \in BOOLEAN
    /\ cache_writable \in BOOLEAN
    /\ cache_files = <<>>
    /\ cache_now = 0
    /\ cache_log = <<>>

NextCache ==
    \/ CallWrapper
    \/ RmCacheEntry
    \/ Tick

SpecCache == InitCache /\ [][NextCache]_vars

NextPager ==
    \/ FirstFetch
    \/ NextPage
    \/ Return

SpecPager == InitPager /\ [][NextPager]_vars

\* get_all_nodes runs to its end: a Python call is not suspended forever
FairSpecPager == SpecPager /\ WF_vars(NextPager)

(***************************************************************************)
(* Properties of get_all_nodes                                             *)
(***************************************************************************)
\* the cursor get_all_nodes was called with
StartCursor == IF requests = <<>> THEN at ELSE requests[1]

RECURSIVE PagesFrom(_, _)
\* the cursors of the pages of the collection from cursor c on, following at
\* most `more` links
PagesFrom(c, more) ==
    IF source[c].hasMore /\ more > 0
    THEN <<c>> \o PagesFrom(source[c].cursor, more - 1)
    ELSE <<c>>

CollectionPages == PagesFrom(StartCursor, MaxCursor)

\* a finite, well-behaved source: the pages from the start cursor on are
\* distinct, the last one reports no more results, none carries errors, and
\* no page that reports more results returns the cursor it was requested with
WellBehaved ==
    LET path == CollectionPages
    IN /\ ~source[path[Len(path)]].hasMore
       /\ \A i, j \in 1..Len(path) : i # j => path[i] # path[j]
       /\ \A i \in 1..Len(path) :
             /\ ~source[path[i]].errors
             /\ source[path[i]].hasMore => source[path[i]].cursor # path[i]

CollectionNodes ==
    Flatten([i \in 1..Len(CollectionPages) |-> source[CollectionPages[i]].nodes])

\* C9: on a finite well-behaved page source get_all_nodes terminates and
\* returns the concatenation of the pages' nodes in fetch order, each page
\* being requested exactly once.
C9_TraversalComplete ==
    [](WellBehaved => <>(/\ ppc = "returned"
                         /\ result = CollectionNodes
                         /\ requests = CollectionPages))

C9_Witness ==
    /\ WellBehaved
    /\ ppc = "returned"
    /\ Len(requests) = MaxCursor + 1
    /\ Len(result) >= 2

\* C10: when the page fetched last reports more results and returns the
\* cursor it was requested with, the next step raises the stalled-cursor
\* error without another query and nothing is returned; that cursor has been
\* requested once.  A page that reports no more results ends the traversal
\* normally, whatever its cursor.
C10_StallRaises ==
    [][/\ (ppc = "loop" /\ data.hasMore /\ data.cursor = at)
            => /\ ppc' = "raised"
               /\ perr' = "stalled"
               /\ requests' = requests
               /\ result' = <<>>
               /\ Cardinality({i \in 1..Len(requests) : requests[i] = at}) = 1
       /\ (ppc = "loop" /\ ~data.hasMore)
            => /\ ppc' = "returned"
               /\ perr' = "none"
               /\ result' = commits]_vars

C10_Witness ==
    /\ ppc = "raised"
    /\ perr = "stalled"
    /\ Len(requests) >= 2
    /\ result = <<>>

\* C11: whatever pages the source returns, get_all_nodes eventually returns
\* or raises.
C11_Terminates == <>(ppc \in {"returned", "raised"})

(***************************************************************************)
(* Properties of the release windows                                       *)
(***************************************************************************)
\* the commits of the history that merge a pull request
IsMergeCommit(c) ==
    \/ c.message.pr # 0
    \/ \E k \in 1..Len(pull_requests) : pull_requests[k].mergeCommit = c.oid

\* a release that takes part in windowing
IsQualifying(r) == ~r.isDraft /\ ~r.isPrerelease /\ IsValidVersion(r.tagName)
Qualifying == SelectSeq(raw_releases, IsQualifying)
QualifyingTags == {Qualifying[k].tagName : k \in 1..Len(Qualifying)}

\* the number of merges of pull request n over all the windows of info
Occurrences(info, n) ==
    Cardinality({w \in (1..Len(info)) \X (1..MaxCommits + ScenarioCommits) :
                    /\ w[2] <= Len(info[w[1]].merges)
                    /\ info[w[1]].merges[w[2]].pr_number = n})

\* the commit of the oldest release kept by v4, 0 without any release
OldestKeptOid ==
    IF releases = <<>> THEN 0
    ELSE CHOOSE o \in {TagOid(releases[k].tagName) : k \in 1..Len(releases)} :
            \A k \in 1..Len(releases) : o <= TagOid(releases[k].tagName)

\* C1: in the windows built by _get_repository_info_v4 every merge commit
\* newer than the oldest kept release yields a merge in exactly one window,
\* whatever the order of the releases' commits.
C1_EachMergeInOneWindow ==
    rpc = "done" =>
        \A i \in 1..Len(history) :
            (IsMergeCommit(history[i]) /\ history[i].oid > OldestKeptOid)
                => Occurrences(release_info, history[i].message.pr) = 1

\* the tags of the release windows of release_info, in order
WindowTags(info) == [k \in 1..(Len(info) - 1) |-> info[k + 1].release_tag]

\* the position of a tag in the list of releases as fetched
FetchIndex(tag) == CHOOSE k \in 1..Len(raw_releases) : raw_releases[k].tagName = tag

\* C2 as stated: release_info[0] is the unreleased window and the release
\* windows are strictly descending by parsed version.
C2_StrictlyDescending ==
    rpc = "done" =>
        /\ release_info[1].release_tag = ""
        /\ \A i, j \in 2..Len(release_info) :
              i < j => VersionLess(release_info[j].release_tag,
                                   release_info[i].release_tag)

\* C2 (amended): release_info[0] is the unreleased window and the release
\* windows are descending by parsed version, not strictly: the windows of
\* two tags that parse to the same version follow each other in the order in
\* which the releases were fetched.
C2_Descending ==
    rpc = "done" =>
        /\ release_info[1].release_tag = ""
        /\ \A i, j \in 2..Len(release_info) :
              i < j =>
                /\ ~VersionLess(release_info[i].release_tag,
                                release_info[j].release_tag)
                /\ Version(release_info[i].release_tag)
                      = Version(release_info[j].release_tag)
                   => FetchIndex(release_info[i].release_tag)
                         < FetchIndex(release_info[j].release_tag)

C2_Witness ==
    /\ rpc = "done"
    /\ Len(release_info) = 3
    /\ release_info[2].release_tag = "2.0.0"
    /\ release_info[3].release_tag = "2.0"

\* the windows of a release_info, as tags with the pull requests merged
WindowMerges(info) ==
    [k \in 1..Len(info) |->
        [release_tag |-> info[k].release_tag,
         prs |-> {info[k].merges[i].pr_number : i \in 1..Len(info[k].merges)}]]

\* C3: for the same repository and the same `since`, the single traversal
\* (_get_repository_info_v3) and the compare queries (_get_repository_info_v4)
\* give the same ordered list of windows with the same merges in each.
C3_StrategiesAgree ==
    (rpc = "done" /\ pc3 = "done") =>
        WindowMerges(release_info) = WindowMerges(info_v3)

\* the windows of a release_info, as tags with the oids of their commits
WindowCommits(info) ==
    [k \in 1..Len(info) |->
        [release_tag |-> info[k].release_tag, commits |-> info[k].commits]]

\* the scenario "simple release boundary": v2.0 on c3, v1.0 on c1, and a
\* look-back that reaches beyond both releases
BoundaryScenario ==
    /\ Len(history) = ScenarioCommits
    /\ Len(raw_releases) = 2
    /\ since.kind = "int"
    /\ since.n >= 2
    /\ include_commits

\* the commits of the history from the newest one down to commit c
NewestDownTo(c) == [i \in 1..(Len(history) - c + 1) |-> Len(history) + 1 - i]

\* C4 as stated: the windows are "" [c5,c4], v2.0 [c3], v1.0 [c2,c1].
C4_BoundaryAsStated ==
    (pc3 = "done" /\ BoundaryScenario) =>
        WindowCommits(info_v3) =
            <<[release_tag |-> "", commits |-> NewestDownTo(4)],
              [release_tag |-> "v2.0", commits |-> <<3>>],
              [release_tag |-> "v1.0", commits |-> <<2, 1>>]>>

\* the releases that _get_repository_info_v3 windows
PublishedTags ==
    {raw_releases[k].tagName :
        k \in {j \in 1..Len(raw_releases) :
                  ~raw_releases[j].isDraft /\ ~raw_releases[j].isPrerelease}}

\* C4 (amended): the single traversal returns "" [c5,c4], v2.0 [c3,c2],
\* v1.0 [c1].  In general, with an integer look-back that reaches beyond all
\* the releases, every published release (the oldest included) gets one
\* window; a window that holds commits starts at its release's commit, holds
\* consecutive commits, and ends right before the next release commit or at
\* the end of the history.
C4_Boundary ==
    (pc3 = "done" /\ include_commits) =>
        /\ BoundaryScenario =>
              WindowCommits(info_v3) =
                  <<[release_tag |-> "", commits |-> NewestDownTo(4)],
                    [release_tag |-> "v2.0", commits |-> <<3, 2>>],
                    [release_tag |-> "v1.0", commits |-> <<1>>]>>
        /\ (since.kind = "int" /\ since.n >= Cardinality(PublishedTags)) =>
              /\ Len(info_v3) = Cardinality(PublishedTags) + 1
              /\ {info_v3[k].release_tag : k \in 2..Len(info_v3)} = PublishedTags
        /\ \A k \in 2..Len(info_v3) :
              LET cs == info_v3[k].commits
              IN cs # <<>> =>
                    /\ cs[1] = TagOid(info_v3[k].release_tag)
                    /\ \A i \in 1..Len(cs) : cs[i] = cs[1] - (i - 1)
                    /\ \/ cs[Len(cs)] = 1
                       \/ k < Len(info_v3)
                          /\ TagOid(info_v3[k + 1].release_tag) = cs[Len(cs)] - 1
                       \/ since.kind = "int" /\ since.n < Cardinality(PublishedTags)
                       \/ since.kind = "str"

C4_Witness ==
    /\ pc3 = "done"
    /\ BoundaryScenario
    /\ Len(info_v3) = 3
    /\ info_v3[2].commits = <<3, 2>>

\* C5: without any qualifying release the window list is the unreleased
\* window alone, built without a compare query; it holds all the commits of
\* the history (when commits are asked for) and a merge for every merge
\* commit of the history.
C5_NoReleaseWindow ==
    (rpc = "done" /\ Qualifying = <<>>) =>
        /\ Len(release_info) = 1
        /\ release_info[1].release_tag = ""
        /\ compares = <<>>
        /\ \A i \in 1..Len(history) :
              IsMergeCommit(history[i])
                 => Occurrences(release_info, history[i].message.pr) = 1
        /\ include_commits =>
              release_info[1].commits = [i \in 1..Len(history) |-> history[i].oid]

\* the pull requests merged by the commits after lo up to hi
MergedBetween(lo, hi) ==
    {history[i].message.pr :
        i \in {j \in 1..Len(history) :
                  /\ IsMergeCommit(history[j])
                  /\ history[j].oid > lo
                  /\ history[j].oid <= hi}}

C7_SinceTagExclusive ==
    (rpc = "done" /\ since.kind = "str") =>
        Range(WindowTags(release_info)) =
            {t \in QualifyingTags : VersionLess(since.tag, t)}

\* C8: with since a string that is not the tag of a qualifying release (the
\* tag of a draft, of a pre-release or of a release with an unparseable
\* version included) the build stops with an error: it never gets to build
\* a window or to send a compare query.
C8_UnknownSinceFails ==
    (since.kind = "str" /\ since.tag \notin QualifyingTags) =>
        /\ rpc \in {"start", "since", "failed"}
        /\ release_info = <<>>
        /\ compares = <<>>

C8_Witness ==
    /\ rpc = "failed"
    /\ \E k \in 1..Len(raw_releases) :
          raw_releases[k].tagName = since.tag /\ raw_releases[k].isDraft
    /\ Len(Qualifying) = 2

(***************************************************************************)
(* Claims on the resolution of release tags                                *)
(***************************************************************************)
RECURSIVE Links(_)
\* the nodes of the chain of a tag, from the outermost one to the terminal one
Links(node) ==
    IF "target" \in DOMAIN node THEN {node} \cup Links(node.target) ELSE {node}

\* the node of a commit
CommitNode(oid) == [oid |-> oid, committedDate |-> CommitDate(oid)]

C13_NonCommitRaises ==
    tag_obj.kind # "commit" =>
        /\ target_v4.status \in {"pending", "raised"}
        /\ target_v3.status \in {"pending", "raised"}

C13_Witness ==
    /\ tag_obj.kind = "tree"
    /\ tag_obj.wrap >= 1
    /\ tag_node = TagRef(tag_obj, [oid |-> tag_obj.oid])
    /\ target_v4.status = "raised"
    /\ target_v3.status = "raised"

(***************************************************************************)
(* Claims on the release set of _get_repository_info_v4                    *)
(***************************************************************************)
\* C14: the releases kept by v4, the tagged windows of release_info, the
\* bases and heads of the compare queries and a tag accepted as `since` are
\* all releases that are no draft, no pre-release and whose tagName parses
\* as a version.
C14_OnlyQualifying ==
    /\ \A k \in 1..Len(releases) : IsQualifying(releases[k])
    /\ \A k \in 1..Len(release_info) :
          release_info[k].release_tag \in QualifyingTags \cup {""}
    /\ \A k \in 1..Len(compares) :
          /\ compares[k][1] \in QualifyingTags
          /\ compares[k][2] \in QualifyingTags \cup {""}
    /\ (since.kind = "str" /\ rpc \in {"unreleased", "pairs", "done"})
          => since.tag \in QualifyingTags

C14_Witness ==
    /\ rpc = "done"
    /\ since.kind = "str"
    /\ Len(release_info) >= 2
    /\ Len(compares) >= 2
    /\ \E k \in 1..Len(raw_releases) :
          ~raw_releases[k].isDraft /\ ~raw_releases[k].isPrerelease
              /\ ~IsValidVersion(raw_releases[k].tagName)

\* the fetched releases without the published ones whose tagName is no version
WithoutInvalid ==
    SelectSeq(raw_releases,
              LAMBDA r : r.isDraft \/ r.isPrerelease \/ IsValidVersion(r.tagName))

\* v4 raises on the release list rels
V4Raises(rels) ==
    LET sorted == SortReleases(ValidReleases(Published(rels)))
    IN \/ TagTargetRaises(Published(rels))
       \/ SinceRaises([k \in 1..Len(sorted) |-> sorted[k].tagName], since)

\* the windows v4 returns on the release list rels
V4Windows(rels) ==
    LET sorted == SortReleases(ValidReleases(Published(rels)))
        kept == SinceSlice(sorted, [k \in 1..Len(sorted) |-> sorted[k].tagName], since)
        all == AllPullRequests(pull_requests)
        first == IF kept = <<>>
                 THEN Window("", PrCommits(history, all))
                 ELSE Window("", PrCommits(
                          CompareCommits(TagOid(kept[1].tagName), DefaultBranchOid), all))
        rest == [k \in 1..(Len(kept) - 1) |->
                    Window(kept[k].tagName, PrCommits(
                        CompareCommits(TagOid(kept[k + 1].tagName),
                                       TagOid(kept[k].tagName)), all))]
        info == <<first>> \o SortWindows(rest)
    IN IF include_commits THEN info
       ELSE [k \in 1..Len(info) |-> DelCommits(info[k])]

\* C15: a published release whose tagName is no version never makes v4
\* fail: v4 raises only if it raises on the input without these releases,
\* and it returns the windows it returns on that input.
C15_InvalidTagDropped ==
    /\ rpc \in {"failed", "keyerror"} => V4Raises(WithoutInvalid)
    /\ rpc = "done" => release_info = V4Windows(WithoutInvalid)

(***************************************************************************)
(* Claims on _pr_commits                                                   *)
(***************************************************************************)
\* the merge the description gives for a commit, as a list of zero or one
\* element: the fields of the pull request indexed by the hash of the commit,
\* else number and branch of a message "Merge pull request #N from <branch>"
RefMerge(commit, all) ==
    LET hits == {k \in 1..Len(all) : all[k].mergeCommit = commit.oid}
        pr == all[CHOOSE k \in hits : \A j \in hits : j <= k]
    IN IF hits # {}
       THEN <<[pr_number |-> pr.number, title |-> pr.title,
               branch |-> pr.headRefName, author |-> pr.author]>>
       ELSE IF commit.message.pr # 0
       THEN <<[pr_number |-> commit.message.pr,
               branch |-> commit.message.branch, author |-> "Unknown"]>>
       ELSE <<>>

\* the description says nothing of the title of a merge taken from a message
WithoutMessageTitle(m) ==
    IF m.author = "Unknown"
    THEN [pr_number |-> m.pr_number, branch |-> m.branch, author |-> m.author]
    ELSE m

Count(seq, v) == Cardinality({k \in 1..Len(seq) : seq[k] = v})

\* C16: _pr_commits returns, for every list of commits and every set of pull
\* requests, one merge for each commit whose hash is in the index or whose
\* message has the merge shape, with the fields the description gives, and
\* nothing else.
C16_MatchesReference ==
    attr_out.status \notin {"idle", "pending"} =>
        /\ attr_out.status = "returned"
        /\ LET ref == Flatten([k \in 1..Len(attr_commits) |->
                                  RefMerge(attr_commits[k], attr_prs)])
               out == [k \in 1..Len(attr_out.merges) |->
                          WithoutMessageTitle(attr_out.merges[k])]
           IN \A v \in Range(ref) \cup Range(out) : Count(ref, v) = Count(out, v)

\* the merges of the commits, in the order of the commits
InProcessingOrder ==
    Flatten([k \in 1..Len(attr_commits) |-> MergeOfCommit(attr_commits[k], attr_prs)])

\* C17 as stated: the returned list is in the reverse of the order in which
\* the commits were processed, the merge of the last commit coming first.
C17_ReverseOrder ==
    attr_out.status = "returned" => attr_out.merges = Reverse(InProcessingOrder)

\* C17: the returned list is in the order in which the commits were
\* processed, the merge of the first commit coming first.
C17_ProcessingOrder ==
    attr_out.status = "returned" => attr_out.merges = InProcessingOrder

C17_Witness ==
    /\ attr_out.status = "returned"
    /\ Len(attr_commits) = MaxAttr
    /\ Len(attr_out.merges) = MaxAttr
    /\ attr_out.merges[1] # attr_out.merges[MaxAttr]
    /\ attr_out.merges[1] \in Range(MergeOfCommit(attr_commits[1], attr_prs))

(***************************************************************************)
(* Claims on repository_change_summary                                     *)
(***************************************************************************)
\* the release_info the function uses for a package: the one it was given,
\* or the wider one it fetches when the initial version is not in the first
UsedInfo(name) ==
    IF initial_versions[name] \in Range(CleanReleases(GivenInfo(repo_kind[name])))
    THEN GivenInfo(repo_kind[name])
    ELSE WiderInfo(repo_kind[name])

InBoth(name) == name \in DOMAIN initial_versions \cap DOMAIN final_versions

\* a package of both manifests with different versions, whose repository
\* info is available and holds both versions among its cleaned window tags
Sliceable(name) ==
    /\ InBoth(name)
    /\ initial_versions[name] # final_versions[name]
    /\ HasInfo(repo_kind[name])
    /\ {initial_versions[name], final_versions[name]}
          \subseteq Range(CleanReleases(UsedInfo(name)))

UpdatesOf(name) == SelectSeq(summary.updates, LAMBDA e : e.name = name)

\* the first index of the windows of used info that are not in the slice the
\* description gives: index(initial)
StatedEnd(name) ==
    TagIndex(CleanReleases(UsedInfo(name)), initial_versions[name])

\* the same, except that the slice of an empty initial version runs to the
\* end of the window list
TailEnd(name) ==
    IF initial_versions[name] = "" THEN Len(UsedInfo(name)) ELSE StatedEnd(name)

\* version_1, then the tags of the windows at indices [index(final), end) in
\* reverse order; the merges of these windows, concatenated and reversed
SlicedUpdate(name, end) ==
    LET info == UsedInfo(name)
        tags == CleanReleases(info)
        i2 == TagIndex(tags, final_versions[name])
    IN [versions |-> <<initial_versions[name]>>
                        \o Reverse([k \in 1..(end - i2) |-> tags[i2 + k]]),
        merges |-> Reverse(Flatten([k \in 1..(end - i2) |->
                                      OutMerges(name, info[i2 + k].merges)])),
        newer |-> i2 < end]

HasSlicedUpdate(name, end) ==
    /\ Len(UpdatesOf(name)) = 1
    /\ UpdatesOf(name)[1].versions = SlicedUpdate(name, end).versions
    /\ UpdatesOf(name)[1].merges = SlicedUpdate(name, end).merges
    /\ SlicedUpdate(name, end).newer =>
          UpdatesOf(name)[1].versions[Len(UpdatesOf(name)[1].versions)]
              = final_versions[name]

\* C18 as stated: every package of both manifests with different versions,
\* both among the cleaned window tags of its repository info, has the
\* update entry with versions = [version_1] followed by the tags of the
\* windows at indices [index(final), index(initial)) in reverse order.
C18_SliceAsStated ==
    dpc = "returned" =>
        \A name \in Range(PackageNames) :
            Sliceable(name) => HasSlicedUpdate(name, StatedEnd(name))

\* C18: every package of both manifests with different versions, the final
\* one not empty, both among the cleaned window tags of its repository info,
\* has one update entry with versions = [version_1] followed by the tags of
\* the windows at indices [index(final), index(initial)) in reverse order,
\* or [index(final), end of the list) when the initial version is empty, and
\* merges = the reverse of the concatenation of the merges of these windows;
\* when the slice is not empty, versions ends with version_2.
C18_Slice ==
    dpc = "returned" =>
        \A name \in Range(PackageNames) :
            (Sliceable(name) /\ final_versions[name] # "")
                => HasSlicedUpdate(name, TailEnd(name))

C18_Witness ==
    /\ dpc = "returned"
    /\ \E name \in Range(PackageNames) :
          /\ Sliceable(name)
          /\ initial_versions[name] # ""
          /\ repo_kind[name] = "short"
          /\ Len(UpdatesOf(name)) = 1
          /\ Len(UpdatesOf(name)[1].versions) = MaxWindows
          /\ Len(UpdatesOf(name)[1].merges) >= MaxWindows

\* C19: with the same manifest as initial and final versions the summary
\* is returned with new, removed and updates all empty, whatever the
\* repository infos are.
C19_IdenticalManifests ==
    (initial_versions = final_versions /\ dpc \notin {"idle", "loop"}) =>
        /\ dpc = "returned"
        /\ summary = EmptySummary

C19_Witness ==
    /\ dpc = "returned"
    /\ initial_versions = final_versions
    /\ DOMAIN initial_versions = Range(PackageNames)
    /\ \E n \in DOMAIN initial_versions : initial_versions[n] = ""
    /\ \E n \in DOMAIN initial_versions : initial_versions[n] \notin {"", "0.5"}
    /\ summary = EmptySummary

\* C20: in the summary returned, `new` holds exactly one entry for each
\* package that is in the final manifest and not in the initial one, with
\* the version of the final manifest, and nothing else; these packages are
\* neither in `removed` nor in `updates`.
C20_NewEntries ==
    dpc = "returned" =>
        LET added == DOMAIN final_versions \ DOMAIN initial_versions
        IN /\ Len(summary.new) = Cardinality(added)
           /\ \A n \in added :
                 /\ Count(summary.new, [name |-> n, version |-> final_versions[n]]) = 1
                 /\ n \notin Range(summary.removed)
                 /\ UpdatesOf(n) = <<>>

C20_Witness ==
    /\ dpc = "returned"
    /\ Len(summary.new) = 1
    /\ summary.new[1].version # ""
    /\ Len(summary.updates) = 1
    /\ summary.new[1].name # summary.updates[1].name

\* C21: the `removed` list of the summary returned holds exactly the names
\* of the initial manifest that are absent from the final manifest or have
\* an empty version in it.
C21_RemovedWithFalsy ==
    dpc = "returned" =>
        Range(summary.removed) =
            {n \in DOMAIN initial_versions :
                n \notin DOMAIN final_versions \/ final_versions[n] = ""}

\* the packages that the loop over package_names has gone through
Processed(name) == \E k \in 1..(dnext - 1) : k <= Len(PackageList) /\ PackageList[k] = name

\* a package of both manifests with a changed, non-empty final version that
\* is among the cleaned window tags of its repository
FinalKnown(name) ==
    /\ InBoth(name)
    /\ final_versions[name] # ""
    /\ final_versions[name] # initial_versions[name]
    /\ HasInfo(repo_kind[name])
    /\ final_versions[name] \in Range(CleanReleases(UsedInfo(name)))

\* the initial version is not among the cleaned tags, after the re-fetch too
InitialUnknown(name) ==
    initial_versions[name] \notin Range(CleanReleases(UsedInfo(name)))

Logged(event, name) ==
    \E k \in 1..Len(dlog) : dlog[k] = [event |-> event, name |-> name]

Changed(name) ==
    /\ InBoth(name)
    /\ final_versions[name] # ""
    /\ final_versions[name] # initial_versions[name]

\* C23: in the summary returned every package of both manifests with a
\* non-empty final version that differs from the initial one has exactly one
\* entry in updates and none in new or removed, whatever is known of its
\* repository.
C23_ChangedOnce ==
    dpc = "returned" =>
        \A name \in Range(PackageNames) :
            Changed(name) =>
                /\ Len(UpdatesOf(name)) = 1
                /\ name \notin Range(summary.removed)
                /\ \A k \in 1..Len(summary.new) : summary.new[k].name # name

\* C28: the function does not raise for a package whose non-empty final
\* version is not among the cleaned window tags of its repository (a
\* repository with releases): once the loop has gone through the package
\* the function has not raised and updates has one entry for the package.
C28_FinalUnknownReturns ==
    \A name \in Range(PackageNames) :
        (/\ Processed(name)
         /\ Changed(name)
         /\ HasInfo(repo_kind[name])
         /\ CleanReleases(UsedInfo(name)) # <<"">>
         /\ final_versions[name] \notin Range(CleanReleases(UsedInfo(name))))
            => /\ dpc # "raised"
               /\ Len(UpdatesOf(name)) = 1

\* the merges that entries of updates take from the unreleased window
\* (release_tag "", index 0) of the repository info of a package
UnreleasedMerges(name) == OutMerges(name, UsedInfo(name)[1].merges)

\* C29: no merge of the unreleased window of a repository is among the
\* merges of an entry of updates: the windows of an update start at an
\* index >= 1 of the window list.
C29_NoUnreleasedMerge ==
    \A k \in 1..Len(summary.updates) :
        LET e == summary.updates[k]
        IN "merges" \in DOMAIN e =>
              /\ Range(e.merges) \cap Range(UnreleasedMerges(e.name)) = {}
              /\ TagIndex(CleanReleases(UsedInfo(e.name)), e.version_2) >= 1

C29_Witness ==
    /\ dpc = "returned"
    /\ \E k \in 1..Len(summary.updates) :
          /\ "merges" \in DOMAIN summary.updates[k]
          /\ summary.updates[k].version_1 = ""
          /\ Len(summary.updates[k].merges) >= MaxWindows
          /\ UnreleasedMerges(summary.updates[k].name) # <<>>

(***************************************************************************)
(* Claims on last_tag, get_repositories_info and json_cache                *)
(***************************************************************************)
\* C25: in the info that _get_repository_info_v4 returns, last_tag is the
\* tag of a qualifying release of the highest version whenever the
\* repository has a qualifying release (a single one included), and "" when
\* it has none.
C25_LastTagIsHighest ==
    rpc = "done" =>
        IF QualifyingTags = {}
        THEN last_tag = ""
        ELSE /\ last_tag \in QualifyingTags
             /\ \A t \in QualifyingTags : ~VersionLess(last_tag, t)

\* the repositories of the batch whose fetch succeeded / failed, in input order
Fetched == SelectSeq(batch_repos, LAMBDA r : r \notin batch_fails)
Failed == SelectSeq(batch_repos, LAMBDA r : r \in batch_fails)

\* the keys of the dictionary that get_repositories_info returns
InfoKeys == {"packages", "time"} \cup Range(MetaPackages)

\* C24: an exception raised while a repository is fetched does not abort
\* the batch, the packages of the result are the repositories whose fetch
\* succeeded, in input order, and the result holds the list of the
\* repositories that failed.
C24_PartialResultAndFailures ==
    bpc = "returned" =>
        /\ [k \in 1..Len(batch_info.packages) |-> batch_info.packages[k].name] = Fetched
        /\ Failed # <<>> =>
              \E k \in DOMAIN batch_info \ InfoKeys : batch_info[k] = Failed

\* C27: _get_release_commit resolves a release tag that reaches a commit
\* through any number of annotated tags to that commit, and raises only when
\* the chain ends in an object that is not a commit.
C27_RestResolvesChain ==
    target_v3.status \in {"returned", "raised"} =>
        IF tag_obj.kind = "commit"
        THEN target_v3.status = "returned" /\ target_v3.oid = tag_obj.oid
        ELSE target_v3.status = "raised"

\* two events of the log that follow each other and are calls of the
\* decorated function with the same arguments
SameArgsCalls(k) ==
    /\ cache_log[k].op = "call"
    /\ cache_log[k + 1].op = "call"
    /\ cache_log[k + 1].args = cache_log[k].args

\* C26: when a call with update = False has computed a result because no
\* cache entry existed (cache directory writable), the next call with the
\* same arguments, made while the entry is not expired and the update policy
\* returns false, returns that result without invoking the wrapped function;
\* a call with update = True (cache directory writable) invokes the function
\* and writes its result to the entry.
C26_SecondCallFromCache ==
    /\ \A k \in 1..(Len(cache_log) - 1) :
          (/\ cache_writable
           /\ SameArgsCalls(k)
           /\ ~cache_log[k].update /\ ~cache_log[k].cached
           /\ ~cache_log[k + 1].update
           /\ ~cache_log[k + 1].expired /\ ~cache_log[k + 1].outdated)
             => /\ ~cache_log[k + 1].invoked
                /\ cache_log[k + 1].result = cache_log[k].result
    /\ \A k \in 1..Len(cache_log) :
          (cache_writable /\ cache_log[k].op = "call" /\ cache_log[k].update)
             => cache_log[k].invoked /\ cache_log[k].wrote

\* C30: rm_cache_entry(args) removes the cache file that the wrapper reads
\* and writes for args: after it the file does not exist, and a call with
\* the same arguments that follows it invokes the wrapped function.
C30_RmRemovesEntry ==
    \A k \in 1..Len(cache_log) :
        cache_log[k].op = "rm" =>
            /\ k = Len(cache_log) =>
                  WrapperFile(cache_log[k].args) \notin DOMAIN cache_files
            /\ (k < Len(cache_log) /\ cache_log[k + 1].op = "call"
                  /\ cache_log[k + 1].args = cache_log[k].args)
                  => cache_log[k + 1].invoked
====
